---- MODULE Spec2Model ----
(***************************************************************************)
(* Kanban board of zenith_task: optimistic drag-and-drop reordering with   *)
(* server reconciliation (KanbanBoard.tsx, the current version of the      *)
(* component, lines 278-632).                                              *)
(*                                                                         *)
(* The state is the React state of the component (tasks, activeTask), the  *)
(* SWR cache entry it reads (fetchedTasks), the drag library's own session *)
(* state (the active draggable and the droppable under the pointer), the   *)
(* reorder requests in flight, and the task table of the server.           *)
(***************************************************************************)
EXTENDS Integers, Sequences, FiniteSets, TLC

(***************************************************************************)
(* Bounds of the exploration.                                              *)
(***************************************************************************)
MaxDrags == 2
MaxOverlapDrags == 3
MaxInFlight == 2
MaxEdits == 1
MaxGroupingDrags == 1
MaxAuthChecks == 3

(***************************************************************************)
(* Program constants and the encoding of values.                           *)
(***************************************************************************)
\* defaultColumns, in configuration order
defaultColumns == <<"todo", "inprogress", "done">>
ColumnIds == {defaultColumns[i] : i \in 1..Len(defaultColumns)}

\* order_in_list is number | null | undefined; null is encoded as NullOrder
NullOrder == -1
\* the value `??` substitutes for a null order_in_list (JavaScript Infinity)
Infinity == 1000

NoTask == 0
TaskIds == {3, 5, 9}

Task(id, status, order) == [id |-> id, status |-> status, order_in_list |-> order]

\* what the drag library reports as `over`: nothing, a task card, or a column
NoOver == [type |-> "None", task |-> NoTask, col |-> ""]
OverTask(id) == [type |-> "Task", task |-> id, col |-> ""]
OverColumn(c) == [type |-> "Column", task |-> NoTask, col |-> c]

(***************************************************************************)
(* Array helpers (1-based positions; 0 stands for JavaScript's -1).        *)
(***************************************************************************)
RECURSIVE findIndexFrom(_, _, _)
findIndexFrom(s, id, i) ==
    IF i > Len(s) THEN 0
    ELSE IF s[i].id = id THEN i
    ELSE findIndexFrom(s, id, i + 1)

\* Array.prototype.findIndex(t => t.id === id)
findIndex(s, id) == findIndexFrom(s, id, 1)

\* splice(i, 1)
spliceOut(s, i) == SubSeq(s, 1, i - 1) \o SubSeq(s, i + 1, Len(s))

\* splice(i, 0, x), i being the 1-based position x ends up at
spliceIn(s, i, x) == SubSeq(s, 1, i - 1) \o <<x>> \o SubSeq(s, i, Len(s))

Ids(s) == {s[i].id : i \in 1..Len(s)}

StatusOf(s, id) == s[findIndex(s, id)].status

\* a.order_in_list ?? Infinity
orderKey(t) == IF t.order_in_list = NullOrder THEN Infinity ELSE t.order_in_list

\* a comparator that leaves tasks with equal order_in_list as they come
displayBeforeOrderOnly(a, b) == orderKey(a) < orderKey(b)

\* comparator of tasksByColumn: order_in_list, then id
displayBefore(a, b) ==
    IF orderKey(a) = orderKey(b) THEN a.id < b.id ELSE orderKey(a) < orderKey(b)

\* comparator of the sort in the change detection: order_in_list only
originalBefore(a, b) == orderKey(a) < orderKey(b)

\* compareFn(a, b) < 0, for the two comparators the component passes to sort
comesBefore(compareFn, a, b) ==
    IF compareFn = "orderThenId" THEN displayBefore(a, b) ELSE originalBefore(a, b)

\* Array.prototype.sort, which is stable: the element at position i ends up
\* after every element the comparator puts before it, and after the earlier
\* elements the comparator does not distinguish from it
stableSort(s, compareFn) ==
    LET n == Len(s)
        rank(i) == 1 + Cardinality({j \in 1..n :
                        /\ j # i
                        /\ \/ comesBefore(compareFn, s[j], s[i])
                           \/ (~comesBefore(compareFn, s[i], s[j]) /\ j < i)})
    IN  [p \in 1..n |-> s[CHOOSE i \in 1..n : rank(i) = p]]

(***************************************************************************)
(* Column Grouping View: tasksByColumn.                                    *)
(***************************************************************************)
\* grouping by the raw status, without the fallback
displayColumnNoFallback(t) == t.status

\* the column a task is rendered in
displayColumn(t) ==
    IF t.status # "" /\ t.status \in ColumnIds THEN t.status ELSE "todo"

tasksByColumn(ts) ==
    [c \in ColumnIds |->
        stableSort(SelectSeq(ts, LAMBDA t : displayColumn(t) = c), "orderThenId")]

(***************************************************************************)
(* Drag Session Controller: handleDragOver.                                *)
(***************************************************************************)
\* overData.type === 'Column' ? over.id : overData.task.status, the task
\* being the one the hovered card renders
targetColumnId(ts, ov) ==
    IF ov.type = "Column" THEN ov.col ELSE StatusOf(ts, ov.task)

\* the position the dragged task is reinserted at, in the list it was
\* removed from: the hovered task's position, or the position after the
\* last task of the hovered column (the end of the list for an empty
\* column); 0 when the hovered task is not in the list
overTaskIndexInAllTasks(newTasks, ov, target) ==
    IF ov.type = "Task" THEN findIndex(newTasks, ov.task)
    ELSE LET tasksInTargetColumn == SelectSeq(newTasks, LAMBDA t : t.status = target)
         IN  IF Len(tasksInTargetColumn) > 0
             THEN findIndex(newTasks,
                      tasksInTargetColumn[Len(tasksInTargetColumn)].id) + 1
             ELSE Len(newTasks) + 1

\* handleDragOver with the hovered position looked up before the dragged
\* task is removed from the list
handleDragOverStaleIndex(prevTasks, activeId, ov) ==
    IF ov.type = "None" \/ (ov.type = "Task" /\ ov.task = activeId) THEN prevTasks
    ELSE IF targetColumnId(prevTasks, ov) = "" THEN prevTasks
    ELSE LET activeIndex == findIndex(prevTasks, activeId)
             target == targetColumnId(prevTasks, ov)
         IN  IF activeIndex = 0 THEN prevTasks
             ELSE LET draggedTask == [prevTasks[activeIndex] EXCEPT !.status = target]
                      newTasks == spliceOut(prevTasks, activeIndex)
                      at == overTaskIndexInAllTasks(prevTasks, ov, target)
                  IN  IF at # 0 /\ at <= Len(newTasks) + 1
                      THEN spliceIn(newTasks, at, draggedTask)
                      ELSE Append(newTasks, draggedTask)

\* handleDragOver without the splice that removes the dragged task
handleDragOverKeepsOriginal(prevTasks, activeId, ov) ==
    IF ov.type = "None" \/ (ov.type = "Task" /\ ov.task = activeId) THEN prevTasks
    ELSE IF targetColumnId(prevTasks, ov) = "" THEN prevTasks
    ELSE LET activeIndex == findIndex(prevTasks, activeId)
             target == targetColumnId(prevTasks, ov)
         IN  IF activeIndex = 0 THEN prevTasks
             ELSE LET draggedTask == [prevTasks[activeIndex] EXCEPT !.status = target]
                      at == overTaskIndexInAllTasks(prevTasks, ov, target)
                  IN  IF at # 0
                      THEN spliceIn(prevTasks, at, draggedTask)
                      ELSE Append(prevTasks, draggedTask)

\* the new value of `tasks` after handleDragOver({active, over})
handleDragOver(prevTasks, activeId, ov) ==
    IF ov.type = "None" \/ (ov.type = "Task" /\ ov.task = activeId) THEN prevTasks
    ELSE IF targetColumnId(prevTasks, ov) = "" THEN prevTasks
    ELSE LET activeIndex == findIndex(prevTasks, activeId)
             target == targetColumnId(prevTasks, ov)
         IN  IF activeIndex = 0 THEN prevTasks
             ELSE LET draggedTask == [prevTasks[activeIndex] EXCEPT !.status = target]
                      newTasks == spliceOut(prevTasks, activeIndex)
                      at == overTaskIndexInAllTasks(newTasks, ov, target)
                  IN  IF at # 0
                      THEN spliceIn(newTasks, at, draggedTask)
                      ELSE Append(newTasks, draggedTask)

(***************************************************************************)
(* Reconciliation/Sync Engine: the computations of handleDragEnd.          *)
(***************************************************************************)
\* the status the dragged task is given at drop
targetStatus(ts, activeId, ov) ==
    IF ov.type = "Column" THEN ov.col
    ELSE IF ov.type = "Task" THEN StatusOf(ts, ov.task)
    ELSE StatusOf(ts, activeId)

\* [...tasks] with the dragged task's status set to the target status
currentTasksSnapshot(ts, activeId, status) ==
    LET activeTaskIndex == findIndex(ts, activeId)
    IN  [ts EXCEPT ![activeTaskIndex].status = status]

\* grouping at drop under the task's own status, whatever it is
finalStatusAsStored(t) == t.status

\* the key a task is grouped under at drop
finalStatus(t) ==
    IF t.status # "" /\ t.status \in ColumnIds THEN t.status ELSE defaultColumns[1]

\* Object.keys(tasksGroupedByFinalStatus): the keys in order of insertion
RECURSIVE groupKeys(_)
groupKeys(s) ==
    IF s = << >> THEN << >>
    ELSE LET rest == groupKeys(SubSeq(s, 1, Len(s) - 1))
             k == finalStatus(s[Len(s)])
         IN  IF \E i \in DOMAIN rest : rest[i] = k THEN rest ELSE Append(rest, k)

\* the entries of one group with the tasks' stored keys as positions
reorderItemsKeepKeys(group, statusKey) ==
    [i \in 1..Len(group) |->
        [task_id |-> group[i].id, new_status |-> statusKey,
         new_order_in_list |-> group[i].order_in_list]]

\* the entries pushed for one group: new_order_in_list is the array index
reorderItems(group, statusKey) ==
    [i \in 1..Len(group) |->
        [task_id |-> group[i].id, new_status |-> statusKey, new_order_in_list |-> i - 1]]

RECURSIVE payloadOfKeys(_, _)
payloadOfKeys(snapshot, keys) ==
    IF keys = << >> THEN << >>
    ELSE reorderItems(SelectSeq(snapshot, LAMBDA t : finalStatus(t) = keys[1]), keys[1])
         \o payloadOfKeys(snapshot, Tail(keys))

\* reorderPayload: one entry per task of the snapshot, group by group
reorderPayload(snapshot) == payloadOfKeys(snapshot, groupKeys(snapshot))

\* originalTaskStateMap.get(id)
originalState(fetched, id) ==
    LET ot == fetched[findIndex(fetched, id)]
        statusKey == finalStatus(ot)
        group == stableSort(SelectSeq(fetched, LAMBDA t : finalStatus(t) = statusKey),
                            "order")
    IN  [status |-> statusKey, order |-> findIndex(group, id) - 1]

changeOccurred(fetched, payload) ==
    \/ Len(payload) # Len(fetched)
    \/ \E i \in 1..Len(payload) :
          \/ findIndex(fetched, payload[i].task_id) = 0
          \/ originalState(fetched, payload[i].task_id).status # payload[i].new_status
          \/ originalState(fetched, payload[i].task_id).order
                 # payload[i].new_order_in_list

(***************************************************************************)
(* Remote Task Service: PUT /tasks/reorder.                                *)
(***************************************************************************)
\* the payload's entry for a task, as a set (empty when there is none)
itemsFor(payload, id) == {payload[i] : i \in {j \in 1..Len(payload) : payload[j].task_id = id}}

\* the task table after the batch: every listed task takes new_status and
\* new_order_in_list; GET /tasks keeps returning the rows in the same order
applyReorder(rows, payload) ==
    [i \in 1..Len(rows) |->
        IF itemsFor(payload, rows[i].id) = {} THEN rows[i]
        ELSE LET item == CHOOSE it \in itemsFor(payload, rows[i].id) : TRUE
             IN  [rows[i] EXCEPT !.status = item.new_status,
                                 !.order_in_list = item.new_order_in_list]]

(***************************************************************************)
(* State.                                                                  *)
(***************************************************************************)
VARIABLES
    serverTasks,      \* the rows GET /tasks returns
    fetchedTasks,     \* data of useSWR(tasksUrl): the Task Store
    tasks,            \* useState<Task[]>: the list rendered, the working snapshot
    activeTask,       \* useState<Task | null>, by id
    dndActive,        \* the drag library's active draggable, by id
    over,             \* the drag library's droppable under the pointer
    dragsLeft,        \* drag sessions the exploration may still start
    inflight,         \* the PUT /tasks/reorder requests not yet resolved
    nextSeq,          \* submission number of the next request
    revalidating,     \* a GET of tasksUrl, started by mutateSWRTasks(), is pending
    resolved,         \* the requests resolved so far, in order: [seq, ok]
    tasksFrom,        \* what wrote `tasks` last: "store", "drag" or "rollback"
    storeAtDragStart, \* fetchedTasks as it was when the session began
    error,            \* error of useSWR(tasksUrl): the last GET of the list failed
    editsLeft,        \* edits in other components the exploration may still make
    userStore,        \* useUserStore: [user, token, isAuthenticated, isLoading]
    storedToken,      \* apiClient's token, mirrored in localStorage 'authToken'
    pendingAuth,      \* the checkAuth() calls awaiting GET /users/me
    authCalls,        \* checkAuth() calls made so far
    loggedOut         \* logout() has run and nobody has signed in since

vars == <<serverTasks, fetchedTasks, tasks, activeTask, dndActive, over, dragsLeft,
          inflight, nextSeq, revalidating, resolved, tasksFrom,
          storeAtDragStart, error, editsLeft,
          userStore, storedToken, pendingAuth, authCalls, loggedOut>>

boardVars == <<serverTasks, fetchedTasks, tasks, activeTask, dndActive, over, dragsLeft,
               inflight, nextSeq, revalidating, resolved, tasksFrom,
               storeAtDragStart, error, editsLeft>>

authVars == <<userStore, storedToken, pendingAuth, authCalls, loggedOut>>

\* board contents the server may hold when the component mounts
BoardScenario == <<Task(3, "todo", 2), Task(5, "done", 1), Task(9, "done", 2)>>
BoardSequential == <<Task(3, "todo", 0), Task(5, "todo", 1), Task(9, "done", 0)>>
BoardLoose == <<Task(9, "todo", 1), Task(3, "todo", NullOrder), Task(5, "archived", 1)>>
InitialBoards == {BoardScenario, BoardSequential, BoardLoose}

(***************************************************************************)
(* The auth store (useUserStore) and the token apiClient keeps.            *)
(***************************************************************************)
NoUser == 0
NoToken == 0
\* the tokens the server issues: a token is modelled by the account it
\* belongs to, and GET /users/me answers with that account's profile
Tokens == {1, 2}

\* create(...): the store's state before any action
createdStore == [user |-> NoUser, token |-> NoToken, isAuthenticated |-> FALSE,
                 isLoading |-> TRUE]

\* set({ user: null, token: null, isAuthenticated: false, isLoading: false })
clearedStore == [user |-> NoUser, token |-> NoToken, isAuthenticated |-> FALSE,
                 isLoading |-> FALSE]

\* setToken's set(...)
setToken(store, newTokenValue) ==
    [store EXCEPT !.token = newTokenValue, !.isAuthenticated = (newTokenValue # NoToken)]

\* checkAuth up to its await: the store it leaves
checkAuthStore(store, currentToken) ==
    IF currentToken # NoToken
    THEN [store EXCEPT !.isLoading = TRUE, !.token = currentToken,
                       !.isAuthenticated = TRUE]
    ELSE clearedStore

\* checkAuth up to its await: the calls left awaiting GET /users/me; the
\* request carries the token apiClient held when it was made
checkAuthPending(pending, currentToken, callNo) ==
    IF currentToken # NoToken
    THEN pending \cup {[call |-> callNo, token |-> currentToken]}
    ELSE pending

\* checkAuth after a successful GET /users/me
storeAfterProfile(store, c) ==
    [store EXCEPT !.user = c.token, !.isAuthenticated = TRUE, !.isLoading = FALSE]

\* the store of a signed-in user, all calls resolved
SignedIn ==
    /\ userStore = [user |-> 1, token |-> 1, isAuthenticated |-> TRUE, isLoading |-> FALSE]
    /\ storedToken = 1
    /\ pendingAuth = {}
    /\ authCalls = 0
    /\ loggedOut = FALSE

\* the component after the first load: useEffect has copied the fetched
\* list into `tasks`
boardLoaded(board, sessions, edits) ==
    /\ serverTasks = board
    /\ fetchedTasks = serverTasks
    /\ tasks = serverTasks
    /\ activeTask = NoTask
    /\ dndActive = NoTask
    /\ over = NoOver
    /\ dragsLeft = sessions
    /\ inflight = {}
    /\ nextSeq = 1
    /\ revalidating = FALSE
    /\ resolved = << >>
    /\ tasksFrom = "store"
    /\ storeAtDragStart = serverTasks
    /\ error = FALSE
    /\ editsLeft = edits

\* the board as a signed-in user has it
MountedWith(board, sessions, edits) == boardLoaded(board, sessions, edits) /\ SignedIn

Mounted(board, sessions) == MountedWith(board, sessions, 0)

Init == \E board \in InitialBoards : Mounted(board, MaxDrags)

\* one board, and one more session, for the runs of three overlapping syncs
InitOverlap == Mounted(BoardSequential, MaxOverlapDrags)

(***************************************************************************)
(* Drag events.                                                            *)
(***************************************************************************)
\* the droppables on screen: every rendered card and every column
OverTargets(ts) ==
    {NoOver} \cup {OverTask(id) : id \in Ids(ts)} \cup {OverColumn(c) : c \in ColumnIds}

\* onDragStart: the library starts a session only when none is active
handleDragStart(id) ==
    /\ dndActive = NoTask
    /\ ~error
    /\ dragsLeft > 0
    /\ Cardinality(inflight) < MaxInFlight
    /\ id \in Ids(tasks)
    /\ activeTask' = id
    /\ dndActive' = id
    /\ over' = NoOver
    /\ dragsLeft' = dragsLeft - 1
    /\ storeAtDragStart' = fetchedTasks
    /\ UNCHANGED <<serverTasks, fetchedTasks, tasks, inflight, nextSeq,
                   revalidating, resolved, tasksFrom>>
    /\ UNCHANGED <<error, editsLeft>>
    /\ UNCHANGED authVars

\* a drag-over handler that writes the moved list through to the cache
storeAfterDragOverWritesThrough(store, newTasks) == newTasks

\* what handleDragOver leaves in the Task Store: it calls setTasks only
storeAfterDragOver(store, newTasks) == store

\* onDragOver: the pointer is over another droppable (or over none)
DragOver(ov) ==
    /\ dndActive # NoTask
    /\ ov \in OverTargets(tasks)
    /\ over' = ov
    /\ tasks' = handleDragOver(tasks, dndActive, ov)
    /\ tasksFrom' = IF tasks' # tasks THEN "drag" ELSE tasksFrom
    /\ fetchedTasks' = storeAfterDragOver(fetchedTasks, tasks')
    /\ UNCHANGED <<serverTasks, activeTask, dndActive, dragsLeft, inflight,
                   nextSeq, revalidating, resolved, storeAtDragStart>>
    /\ UNCHANGED <<error, editsLeft>>
    /\ UNCHANGED authVars

\* handleDragEnd without the `if (!over) return`
reachesPayloadNoOverCheck(ov, activeId) ==
    /\ findIndex(fetchedTasks, activeId) # 0
    /\ findIndex(tasks, activeId) # 0

\* handleDragEnd gets as far as building the payload
reachesPayload(ov, activeId) ==
    /\ ov.type # "None"
    /\ findIndex(fetchedTasks, activeId) # 0
    /\ findIndex(tasks, activeId) # 0

\* the payload handleDragEnd builds from `tasks`
dropPayload(ov, activeId) ==
    reorderPayload(currentTasksSnapshot(tasks, activeId, targetStatus(tasks, activeId, ov)))

\* handleDragEnd calls apiClient.put('/tasks/reorder', ...)
submitsReorder(ov, activeId) ==
    /\ reachesPayload(ov, activeId)
    /\ changeOccurred(fetchedTasks, dropPayload(ov, activeId))

\* the request handleDragEnd leaves pending: its payload, and the
\* fetchedTasks its catch block closes over
newRequest(ov, activeId) ==
    [seq |-> nextSeq, payload |-> dropPayload(ov, activeId), rollback |-> fetchedTasks,
     storeAtStart |-> storeAtDragStart, state |-> "sent"]

\* onDragEnd, up to the await
handleDragEnd ==
    /\ dndActive # NoTask
    /\ activeTask' = NoTask
    /\ dndActive' = NoTask
    /\ over' = NoOver
    /\ IF submitsReorder(over, dndActive)
       THEN /\ inflight' = inflight \cup {newRequest(over, dndActive)}
            /\ nextSeq' = nextSeq + 1
       ELSE UNCHANGED <<inflight, nextSeq>>
    /\ UNCHANGED <<serverTasks, fetchedTasks, tasks, dragsLeft, revalidating, resolved,
                   tasksFrom, storeAtDragStart>>
    /\ UNCHANGED <<error, editsLeft>>
    /\ UNCHANGED authVars

\* Escape during a drag: the library ends the session and calls
\* onDragCancel, for which the component passes no handler
DragCancel ==
    /\ dndActive # NoTask
    /\ dndActive' = NoTask
    /\ over' = NoOver
    /\ UNCHANGED <<serverTasks, fetchedTasks, tasks, activeTask, dragsLeft, inflight,
                   nextSeq, revalidating, resolved, tasksFrom, storeAtDragStart>>
    /\ UNCHANGED <<error, editsLeft>>
    /\ UNCHANGED authVars

(***************************************************************************)
(* The network.                                                            *)
(***************************************************************************)
\* the server accepts the batch of a request
ServerApply(r) ==
    /\ r \in inflight
    /\ r.state = "sent"
    /\ serverTasks' = applyReorder(serverTasks, r.payload)
    /\ inflight' = (inflight \ {r}) \cup {[r EXCEPT !.state = "applied"]}
    /\ UNCHANGED <<fetchedTasks, tasks, activeTask, dndActive, over, dragsLeft, nextSeq,
                   revalidating, resolved, tasksFrom, storeAtDragStart>>
    /\ UNCHANGED <<error, editsLeft>>
    /\ UNCHANGED authVars

\* the await returns: mutateSWRTasks() starts a revalidation
PutSuccess(r) ==
    /\ r \in inflight
    /\ r.state = "applied"
    /\ inflight' = inflight \ {r}
    /\ revalidating' = TRUE
    /\ resolved' = Append(resolved, [seq |-> r.seq, ok |-> TRUE])
    /\ UNCHANGED <<serverTasks, fetchedTasks, tasks, activeTask, dndActive, over,
                   dragsLeft, nextSeq, tasksFrom, storeAtDragStart>>
    /\ UNCHANGED <<error, editsLeft>>
    /\ UNCHANGED authVars

\* a catch block that sends the batch again
requestsAfterCatchResends(pending, r) == pending

\* the requests pending after the catch block: the failed one is gone, and
\* the block sends nothing
requestsAfterCatch(pending, r) == pending \ {r}

\* a catch block that writes the list it closed over back into the cache
storeAfterCatchWritesBack(store, captured) == captured

\* what the catch block leaves in the Task Store: it does not write it
storeAfterCatch(store, captured) == store

\* the await throws (the batch was rejected, or the request failed): the
\* catch block runs setTasks(fetchedTasks || []) on the list it closed over
PutFail(r) ==
    /\ r \in inflight
    /\ r.state = "sent"
    /\ inflight' = requestsAfterCatch(inflight, r)
    /\ tasks' = r.rollback
    /\ fetchedTasks' = storeAfterCatch(fetchedTasks, r.rollback)
    /\ resolved' = Append(resolved, [seq |-> r.seq, ok |-> FALSE])
    /\ tasksFrom' = "rollback"
    /\ UNCHANGED <<serverTasks, activeTask, dndActive, over, dragsLeft, nextSeq,
                   revalidating, storeAtDragStart>>
    /\ UNCHANGED <<error, editsLeft>>
    /\ UNCHANGED authVars

\* the GET returns: SWR replaces `data` when the list differs from the
\* cached one, and the effect on [fetchedTasks] then runs setTasks
RevalidateDone ==
    /\ revalidating
    /\ revalidating' = FALSE
    /\ fetchedTasks' = serverTasks
    /\ tasks' = IF serverTasks # fetchedTasks THEN serverTasks ELSE tasks
    /\ tasksFrom' = IF serverTasks # fetchedTasks THEN "store" ELSE tasksFrom
    /\ UNCHANGED <<serverTasks, activeTask, dndActive, over, dragsLeft, inflight,
                   nextSeq, resolved, storeAtDragStart>>
    /\ error' = FALSE
    /\ UNCHANGED editsLeft
    /\ UNCHANGED authVars

(***************************************************************************)
(* The rest of the application: the task detail modal; and a failing GET.  *)
(***************************************************************************)
\* the statuses the modal's Select offers
EditStatuses == {"todo", "inprogress", "done"}

\* the rows after PUT /tasks/{id} with a new status
updateTask(rows, id, status) ==
    [i \in 1..Len(rows) |->
        IF rows[i].id = id THEN [rows[i] EXCEPT !.status = status] ELSE rows[i]]

\* TaskDetailModal.handleUpdateTask: the PUT succeeds, then mutate('/tasks')
\* and mutate('/tasks/?project_id=...') revalidate the board's list
handleUpdateTask(id, status) ==
    /\ editsLeft > 0
    /\ id \in Ids(serverTasks)
    /\ status \in EditStatuses
    /\ StatusOf(serverTasks, id) # status
    /\ editsLeft' = editsLeft - 1
    /\ serverTasks' = updateTask(serverTasks, id, status)
    /\ revalidating' = TRUE
    /\ UNCHANGED <<fetchedTasks, tasks, activeTask, dndActive, over, dragsLeft, inflight,
                   nextSeq, resolved, tasksFrom, storeAtDragStart, error>>
    /\ UNCHANGED authVars

\* the GET fails: SWR keeps `data`, sets `error` and retries; the board
\* renders the alert instead of the DndContext, which ends a drag in
\* progress without calling a handler
RevalidateError ==
    /\ revalidating
    /\ ~error
    /\ error' = TRUE
    /\ dndActive' = NoTask
    /\ over' = NoOver
    /\ UNCHANGED <<serverTasks, fetchedTasks, tasks, activeTask, dragsLeft, inflight,
                   nextSeq, revalidating, resolved, tasksFrom, storeAtDragStart,
                   editsLeft>>
    /\ UNCHANGED authVars

Next ==
    \/ \E id \in TaskIds : handleDragStart(id)
    \/ \E ov \in OverTargets(tasks) : DragOver(ov)
    \/ handleDragEnd
    \/ DragCancel
    \/ \E r \in inflight : ServerApply(r)
    \/ \E r \in inflight : PutSuccess(r)
    \/ \E r \in inflight : PutFail(r)
    \/ RevalidateDone

Spec == Init /\ [][Next]_vars

SpecOverlap == InitOverlap /\ [][Next]_vars

\* lists of every mix of known, empty and unknown statuses, with and without
\* an order key, in an order that is not the order of the ids
GroupingOrders == {NullOrder, 1}
GroupingBoards ==
    {<<Task(9, s1, o1), Task(3, s2, o2), Task(5, s3, o3)>> :
        s1 \in {"todo", ""}, s2 \in {"done", "archived"}, s3 \in {"todo", "archived"},
        o1 \in GroupingOrders, o2 \in GroupingOrders, o3 \in GroupingOrders}

InitGrouping == \E board \in GroupingBoards : Mounted(board, MaxGroupingDrags)

SpecGrouping == InitGrouping /\ [][Next]_vars

\* the board together with the rest of the application
InitEdits == MountedWith(BoardScenario, MaxDrags, MaxEdits)

NextEdits ==
    \/ Next
    \/ \E id \in TaskIds, status \in EditStatuses : handleUpdateTask(id, status)
    \/ RevalidateError

SpecEdits == InitEdits /\ [][NextEdits]_vars

(***************************************************************************)
(* The auth store's actions.                                               *)
(***************************************************************************)
\* the page loads: the store is created and the module calls checkAuth()
\* at once, with whatever token localStorage holds
InitAuth ==
    /\ boardLoaded(BoardScenario, 0, 0)
    /\ storedToken \in {NoToken} \cup Tokens
    /\ userStore = checkAuthStore(createdStore, storedToken)
    /\ pendingAuth = checkAuthPending({}, storedToken, 1)
    /\ authCalls = 1
    /\ loggedOut = FALSE

\* LoginForm.onSubmit / SignupForm.onSubmit once the token has arrived:
\* storeSetToken(token), then checkAuth() up to its await
login(t) ==
    /\ authCalls < MaxAuthChecks
    /\ t \in Tokens
    /\ storedToken' = t
    /\ userStore' = checkAuthStore(setToken(userStore, t), t)
    /\ pendingAuth' = checkAuthPending(pendingAuth, t, authCalls + 1)
    /\ authCalls' = authCalls + 1
    /\ loggedOut' = FALSE
    /\ UNCHANGED boardVars

\* checkAuth resumes after GET /users/me has answered with the profile
UsersMeOk(c) ==
    /\ c \in pendingAuth
    /\ userStore' = storeAfterProfile(userStore, c)
    /\ pendingAuth' = pendingAuth \ {c}
    /\ UNCHANGED <<storedToken, authCalls, loggedOut>>
    /\ UNCHANGED boardVars

\* checkAuth resumes in its catch block: the request failed (the token is
\* no longer accepted, or the network failed)
UsersMeFail(c) ==
    /\ c \in pendingAuth
    /\ storedToken' = NoToken
    /\ userStore' = clearedStore
    /\ pendingAuth' = pendingAuth \ {c}
    /\ UNCHANGED <<authCalls, loggedOut>>
    /\ UNCHANGED boardVars

\* Navbar.handleLogout: the button is rendered while isAuthenticated
logout ==
    /\ userStore.isAuthenticated
    /\ storedToken' = NoToken
    /\ userStore' = clearedStore
    /\ loggedOut' = TRUE
    /\ UNCHANGED <<pendingAuth, authCalls>>
    /\ UNCHANGED boardVars

NextAuth ==
    \/ \E t \in Tokens : login(t)
    \/ \E c \in pendingAuth : UsersMeOk(c)
    \/ \E c \in pendingAuth : UsersMeFail(c)
    \/ logout

SpecAuth == InitAuth /\ [][NextAuth]_vars

(***************************************************************************)
(* Properties.                                                             *)
(***************************************************************************)
Failed(r) == PutFail(r)
Resolves(r) == PutSuccess(r) \/ PutFail(r)

\* a request submitted after r has already been resolved
Superseded(r) == \E i \in 1..Len(resolved) : resolved[i].seq > r.seq

\* a drag that ends without a drop target, or by Escape
EndsWithoutTarget == DragCancel \/ (handleDragEnd /\ over.type = "None")

\* the tasks of column c in the order they have in the list ts
arrayColumn(ts, c) == SelectSeq(ts, LAMBDA t : displayColumn(t) = c)

SameDisplay(a, b) == tasksByColumn(a) = tasksByColumn(b)

\* C1 as stated: when a reorder request fails, the Task Store after the
\* recovery equals the Task Store as it was when the drag began.
C1_StoreAsBeforeDrag ==
    [][\A r \in inflight : Failed(r) => fetchedTasks' = r.storeAtStart]_vars

\* C1 as amended: the recovery from a failed reorder request does not write
\* the Task Store; it is after the recovery what it was just before it (and so
\* what it was before the drag whenever no revalidation replaced it since).
C1_RecoveryKeepsStore ==
    [][\A r \in inflight : Failed(r) =>
          /\ fetchedTasks' = fetchedTasks
          /\ (fetchedTasks = r.storeAtStart => fetchedTasks' = r.storeAtStart)]_vars

\* a request has failed after the store was replaced by a newer server list
C1_Witness ==
    /\ \E i \in 1..Len(resolved) : ~resolved[i].ok
    /\ tasksFrom = "rollback"
    /\ fetchedTasks # tasks

\* C2: when a request resolves after a request submitted later has already
\* resolved, its result is discarded: the Task Store and the displayed list
\* are left as they are.
C2_StaleResultDiscarded ==
    [][\A r \in inflight : Resolves(r) /\ Superseded(r) =>
          tasks' = tasks /\ fetchedTasks' = fetchedTasks]_vars

\* C3: after a drag-over event has reinserted the dragged task, every column
\* shows its tasks in the order the handler gave them in the list.
C3_DisplayFollowsDrag ==
    [][\A ov \in OverTargets(tasks) : DragOver(ov) /\ tasks' # tasks =>
          \A c \in ColumnIds : tasksByColumn(tasks')[c] = arrayColumn(tasks', c)]_vars

\* C4: during a drag, a drag-over event applied twice in a row with the
\* same target gives the list that applying it once gives.
C4_DragOverIdempotent ==
    dndActive # NoTask =>
        \A ov \in OverTargets(tasks) :
            handleDragOver(handleDragOver(tasks, dndActive, ov), dndActive, ov)
                = handleDragOver(tasks, dndActive, ov)

\* a drag-over event has moved the dragged task, and the same event again
\* leaves the list as it is
C4_Witness ==
    /\ dndActive # NoTask
    /\ over.type # "None"
    /\ tasksFrom = "drag"
    /\ tasks # fetchedTasks
    /\ handleDragOver(tasks, dndActive, over) = tasks

\* the (status, order_in_list) a task has in a list
recorded(ts, id) ==
    LET t == ts[findIndex(ts, id)] IN <<t.status, t.order_in_list>>

\* C5: the batch built at drop has no entry for a task whose
\* (status, order_in_list) is what it was before the drag; so a drag that
\* changes the moved task only gives a batch of exactly one entry.
C5_OnlyChangedTasks ==
    \A r \in inflight : \A i \in 1..Len(r.payload) :
        <<r.payload[i].new_status, r.payload[i].new_order_in_list>>
            # recorded(r.storeAtStart, r.payload[i].task_id)

\* the ids of a list, in its order
idsInOrder(ts) == [i \in 1..Len(ts) |-> ts[i].id]

\* T3 (todo, order 2) is held over the end of done = [T5 (1), T9 (2)]
ScenarioDrop ==
    /\ fetchedTasks = BoardScenario
    /\ dndActive = 3
    /\ over = OverColumn("done")
    /\ idsInOrder(arrayColumn(tasks, "done")) = <<5, 9, 3>>
    /\ inflight = {}

\* C6: dropping T3 (todo, order 2) at the end of done = [T5 (1), T9 (2)]
\* submits one request, whose batch is [{T3, "done", 3}].
C6_ScenarioBatch ==
    [][handleDragEnd /\ ScenarioDrop =>
          /\ Cardinality(inflight') = 1
          /\ \A r \in inflight' :
                r.payload = <<[task_id |-> 3, new_status |-> "done",
                               new_order_in_list |-> 3]>>]_vars

\* C7: a drag that ends with no drop target, or by Escape, sends no reorder
\* request, whatever drag-over events came before.
C7_NoRequestWithoutTarget ==
    [][EndsWithoutTarget => inflight' = inflight /\ nextSeq' = nextSeq]_vars

\* a drag whose drag-over events changed the list was ended by Escape, and
\* no request has ever been submitted
C7_Witness ==
    /\ dndActive = NoTask
    /\ activeTask # NoTask
    /\ tasksFrom = "drag"
    /\ tasks # fetchedTasks
    /\ inflight = {}
    /\ nextSeq = 1

\* C8: when a drag whose drag-over events changed the list ends with no drop
\* target, or by Escape, the displayed list is again the Task Store's.
C8_CancelRestoresList ==
    [][EndsWithoutTarget /\ tasksFrom = "drag" => tasks' = fetchedTasks']_vars

\* nothing is pending: no drag, no request, no revalidation
Quiescent ==
    /\ inflight = {}
    /\ ~revalidating
    /\ dndActive = NoTask
    /\ activeTask = NoTask

\* C9: once the request resolved last has succeeded and nothing is pending
\* any more, the Task Store holds the server's list and the board displays
\* it (unless a later drag has moved tasks on screen since).
C9_ServerListDisplayed ==
    (/\ Quiescent
     /\ Len(resolved) > 0
     /\ resolved[Len(resolved)].ok
     /\ tasksFrom # "drag")
        => /\ fetchedTasks = serverTasks
           /\ SameDisplay(tasks, fetchedTasks)

DragHandlerStep ==
    \/ handleDragStart(dndActive')
    \/ DragOver(over')

\* C11: handleDragStart and handleDragOver never write the Task Store: every
\* drag-start and drag-over event leaves fetchedTasks (and the server, the
\* pending requests and the pending revalidation) as it was; only the
\* working snapshot and the active-task marker change.
C11_DragHandlersKeepStore ==
    [][DragHandlerStep =>
          UNCHANGED <<fetchedTasks, serverTasks, inflight, nextSeq, revalidating,
                      resolved>>]_vars

\* a drag is in progress, drag-over has moved the dragged task into another
\* column of the working snapshot, and the store is what it was at drag-start
C11_Witness ==
    /\ dndActive # NoTask
    /\ activeTask = dndActive
    /\ over.type = "Column"
    /\ tasksFrom = "drag"
    /\ fetchedTasks = storeAtDragStart
    /\ StatusOf(tasks, dndActive) # StatusOf(fetchedTasks, dndActive)

\* the submission numbers of a set of requests
Seqs(rs) == {r.seq : r \in rs}

\* C12: a step sends at most one reorder request, and only a drop sends
\* one; the failure of a request sends nothing: the failed request is gone,
\* no other request appears, and none is sent again.
C12_OneSubmissionNoRetry ==
    [][/\ Cardinality(Seqs(inflight') \ Seqs(inflight)) <= 1
       /\ (Seqs(inflight') \ Seqs(inflight) # {} => handleDragEnd)
       /\ \A r \in inflight : Failed(r) =>
              /\ Seqs(inflight') = Seqs(inflight) \ {r.seq}
              /\ nextSeq' = nextSeq]_vars

\* the only request submitted has failed; nothing is in flight and no drag
\* is in progress
C12_Witness ==
    /\ Len(resolved) = 1
    /\ ~resolved[1].ok
    /\ nextSeq = 2
    /\ inflight = {}
    /\ dndActive = NoTask

\* C13: when a reorder request fails, an error is shown to the user: after
\* the recovery the board's error state is set.
C13_FailureSurfaced ==
    [][\A r \in inflight : Failed(r) => error']_vars

\* the column the claim assigns to a task
expectedColumn(t) ==
    IF \E i \in 1..Len(defaultColumns) : defaultColumns[i] = t.status
    THEN t.status
    ELSE defaultColumns[1]

\* how many entries of a list are the task t
occurrences(ts, t) == Cardinality({i \in 1..Len(ts) : ts[i] = t})

\* C14: tasksByColumn is a partition of the list: it has a list for every
\* configured column and no other, and each task is once in the list of the
\* column whose id is its status (the first configured column when the
\* status is empty or unknown) and in no other list.
C14_GroupingIsPartition ==
    /\ DOMAIN tasksByColumn(tasks) = ColumnIds
    /\ \A i \in 1..Len(tasks) : \A c \in ColumnIds :
          occurrences(tasksByColumn(tasks)[c], tasks[i])
              = IF c = expectedColumn(tasks[i]) THEN 1 ELSE 0
    /\ \A c \in ColumnIds : \A j \in 1..Len(tasksByColumn(tasks)[c]) :
          occurrences(tasks, tasksByColumn(tasks)[c][j]) = 1

\* the list displayed holds a task with an empty status and a task with an
\* unknown status, both shown in the first column, after a drag moved a task
C14_Witness ==
    /\ \E i \in 1..Len(tasks) : tasks[i].status = ""
    /\ \E i \in 1..Len(tasks) : tasks[i].status = "archived"
    /\ Len(tasksByColumn(tasks)[defaultColumns[1]]) >= 2
    /\ tasksFrom = "drag"

\* the order of the claim: keyed tasks by key, then the tasks without a key;
\* equal keys (or no keys) by id
claimedBefore(a, b) ==
    LET keyed(t) == t.order_in_list # NullOrder
    IN  \/ keyed(a) /\ ~keyed(b)
        \/ keyed(a) /\ keyed(b) /\ a.order_in_list < b.order_in_list
        \/ /\ keyed(a) = keyed(b)
           /\ a.order_in_list = b.order_in_list
           /\ a.id < b.id

\* the rearrangements of a list
Rearrangements(ts) ==
    {[i \in 1..Len(ts) |-> ts[f[i]]] :
        f \in {g \in [1..Len(ts) -> 1..Len(ts)] :
                  \A i, j \in 1..Len(ts) : i # j => g[i] # g[j]}}

\* C15: every column of tasksByColumn is in ascending order of
\* order_in_list with ties broken by ascending id, a task without a key
\* coming after all keyed tasks; and the result is the same for every
\* rearrangement of the list.
C15_ColumnSortOrder ==
    /\ \A c \in ColumnIds :
          LET col == tasksByColumn(tasks)[c]
          IN  \A j, k \in 1..Len(col) : j < k => claimedBefore(col[j], col[k])
    /\ \A other \in Rearrangements(tasks) : tasksByColumn(other) = tasksByColumn(tasks)

\* a column shows three tasks in another order than the list has them: two
\* with the same key, by id, then the one without a key
C15_Witness ==
    \E c \in ColumnIds :
        LET col == tasksByColumn(tasks)[c]
        IN  /\ Len(col) = 3
            /\ col[1].order_in_list = col[2].order_in_list
            /\ col[1].order_in_list # NullOrder
            /\ col[3].order_in_list = NullOrder
            /\ col # arrayColumn(tasks, c)

\* the snapshot handleDragEnd builds the batch from
dropSnapshot == currentTasksSnapshot(tasks, dndActive, targetStatus(tasks, dndActive, over))

\* the dragged task's column in that snapshot, in the snapshot's order
dropColumn ==
    LET moved == dropSnapshot[findIndex(dropSnapshot, dndActive)]
    IN  SelectSeq(dropSnapshot, LAMBDA t : finalStatus(t) = finalStatus(moved))

\* C16: the key a drop assigns to the moved task is strictly between the
\* keys of the tasks it is inserted between: above the key of the task
\* before it and below the key of the task after it in its column.
C16_KeyBetweenNeighbours ==
    [][handleDragEnd /\ submitsReorder(over, dndActive) =>
          LET i == findIndex(dropColumn, dndActive)
              item == CHOOSE it \in itemsFor(dropPayload(over, dndActive), dndActive) : TRUE
          IN  /\ i > 1 => orderKey(dropColumn[i - 1]) < item.new_order_in_list
              /\ i < Len(dropColumn) =>
                     item.new_order_in_list < orderKey(dropColumn[i + 1])]_vars

\* the dragged task is dropped between two tasks whose keys leave no key
\* strictly between them: equal keys, or adjacent integers
KeysExhausted ==
    LET i == findIndex(dropColumn, dndActive)
    IN  /\ 1 < i
        /\ i < Len(dropColumn)
        /\ orderKey(dropColumn[i + 1]) - orderKey(dropColumn[i - 1]) \in {0, 1}

\* a list without the task id
without(ts, id) == SelectSeq(ts, LAMBDA t : t.id # id)

\* C17: when the dragged task is dropped between two tasks whose keys are
\* equal or adjacent integers, the keys the batch gives are pairwise distinct
\* in every column, and the other tasks of each column are shown in the same
\* order after the batch as before it.
C17_RebalanceKeepsOrder ==
    [][handleDragEnd /\ submitsReorder(over, dndActive) /\ KeysExhausted =>
          LET after == applyReorder(fetchedTasks, dropPayload(over, dndActive))
          IN  \A c \in ColumnIds :
                /\ \A j, k \in 1..Len(tasksByColumn(after)[c]) :
                       j # k => tasksByColumn(after)[c][j].order_in_list
                                   # tasksByColumn(after)[c][k].order_in_list
                /\ idsInOrder(without(tasksByColumn(after)[c], dndActive))
                       = idsInOrder(without(tasksByColumn(fetchedTasks)[c], dndActive))]_vars

\* the entries of a batch, as a set
entries(payload) == {payload[i] : i \in 1..Len(payload)}

\* the entries of a request that change a task, measured against the Task
\* Store at the time of its drop
changesOf(r) ==
    {it \in entries(r.payload) :
        <<it.new_status, it.new_order_in_list>> # recorded(r.rollback, it.task_id)}

\* C18: a batch submitted while an earlier request is still in flight does
\* not submit again a change that the earlier request carries.
C18_NoResubmission ==
    [][handleDragEnd /\ submitsReorder(over, dndActive) =>
          \A r \in inflight :
              changesOf(r) \cap entries(dropPayload(over, dndActive)) = {}]_vars

\* C19: the Task Store changes only through the initial load or a
\* successful reorder: whenever fetchedTasks changes, a reorder request has
\* succeeded before.
C19_StoreWrittenBySyncOnly ==
    [][fetchedTasks' # fetchedTasks =>
          \E i \in 1..Len(resolved) : resolved[i].ok]_vars

\* C20: every entry of a submitted batch carries only the fields that
\* changed: new_status only when the task's status differs from its status
\* before the drag, new_order_in_list only when its key differs.
C20_SparseEntries ==
    \A r \in inflight : \A it \in entries(r.payload) :
        /\ "new_status" \in DOMAIN it =>
               it.new_status # recorded(r.storeAtStart, it.task_id)[1]
        /\ "new_order_in_list" \in DOMAIN it =>
               it.new_order_in_list # recorded(r.storeAtStart, it.task_id)[2]

\* C21: after a failed reorder request the displayed list is the Task
\* Store's content at the moment the failure is handled, also when the store
\* was refreshed while the request was in flight.
C21_RollbackToCurrentStore ==
    [][\A r \in inflight : Failed(r) => tasks' = fetchedTasks']_vars

\* C22: while a drag is in progress the working snapshot changes only
\* through the drag-over events of that drag.
C22_SnapshotIsolated ==
    [][dndActive # NoTask /\ dndActive' # NoTask /\ tasks' # tasks =>
          \E ov \in OverTargets(tasks) : DragOver(ov)]_vars

\* C23: a drag-over event leaves the working snapshot complete: the same
\* ids, each once; the other tasks keep all their fields and their order
\* among themselves; of the dragged task only the status (and the position)
\* can change.
C23_DragOverKeepsSnapshotComplete ==
    dndActive # NoTask =>
        \A ov \in OverTargets(tasks) :
            LET new == handleDragOver(tasks, dndActive, ov)
                before == tasks[findIndex(tasks, dndActive)]
            IN  /\ Len(new) = Len(tasks)
                /\ Ids(new) = Ids(tasks)
                /\ \A id \in Ids(tasks) :
                       Cardinality({i \in 1..Len(new) : new[i].id = id}) = 1
                /\ without(new, dndActive) = without(tasks, dndActive)
                /\ findIndex(new, dndActive) # 0
                /\ [new[findIndex(new, dndActive)] EXCEPT !.status = before.status] = before

\* a drag-over event on a card has moved the dragged task to another place
\* and another status; the other tasks are as the store has them
C23_Witness ==
    /\ dndActive # NoTask
    /\ over.type = "Task"
    /\ tasksFrom = "drag"
    /\ findIndex(tasks, dndActive) # findIndex(fetchedTasks, dndActive)
    /\ StatusOf(tasks, dndActive) # StatusOf(fetchedTasks, dndActive)
    /\ without(tasks, dndActive) = without(fetchedTasks, dndActive)

\* C24: after a drag-over event on a column's own area the dragged task has
\* that column's id as status and is the last task shown in that column;
\* after a drag-over event on another task it has the hovered task's status
\* and is shown immediately before the hovered task in its column.
C24_DragOverTargetResolved ==
    [][\A ov \in OverTargets(tasks) :
          DragOver(ov) /\ ov.type # "None" /\ ov # OverTask(dndActive) =>
             LET dragged == tasks'[findIndex(tasks', dndActive)]
                 shown == idsInOrder(tasksByColumn(tasks')[displayColumn(dragged)])
             IN  IF ov.type = "Column"
                 THEN /\ dragged.status = ov.col
                      /\ shown[Len(shown)] = dndActive
                 ELSE /\ dragged.status = StatusOf(tasks, ov.task)
                      /\ \E i \in 1..(Len(shown) - 1) :
                            shown[i] = dndActive /\ shown[i + 1] = ov.task]_vars

\* the column a drop target belongs to as the claim words it: the column's id,
\* or the hovered task's status
targetStatusAsClaimed == IF over.type = "Column" THEN over.col ELSE StatusOf(tasks, over.task)

\* the column a drop target is shown in: the column's id, or the column the
\* hovered task is shown in
targetColumnShown ==
    IF over.type = "Column" THEN over.col
    ELSE displayColumn(tasks[findIndex(tasks, over.task)])

\* the 0-based index of the dragged task among the tasks of the finalized
\* snapshot that are shown in column c
finalIndexIn(c) == findIndex(arrayColumn(dropSnapshot, c), dndActive) - 1

\* C25 (as stated): the batch submitted on a drop over a valid target has an
\* entry for the dragged task whose new_status is the column's id (dropped on
\* a column) or the hovered task's status (dropped on a task), and whose
\* new_order_in_list is the dragged task's final index within its column.
C25_EntryHasTargetStatus ==
    [][handleDragEnd /\ over.type # "None" =>
          \A r \in inflight' \ inflight :
              itemsFor(r.payload, dndActive) =
                  {[task_id |-> dndActive,
                    new_status |-> targetStatusAsClaimed,
                    new_order_in_list |-> finalIndexIn(targetColumnShown)]}]_vars

\* C25 (amended): the batch submitted on a drop over a valid target has
\* exactly one entry for the dragged task; its new_status is the column the
\* target is shown in (the column's id, or the hovered task's status when
\* that is a column id and the first column otherwise) and its
\* new_order_in_list is the 0-based index of the dragged task among the
\* tasks of that column in the finalized working snapshot.
C25_EntryHasTargetColumn ==
    [][handleDragEnd /\ over.type # "None" =>
          \A r \in inflight' \ inflight :
              itemsFor(r.payload, dndActive) =
                  {[task_id |-> dndActive,
                    new_status |-> targetColumnShown,
                    new_order_in_list |-> finalIndexIn(targetColumnShown)]}]_vars

\* a batch is pending in which a task dropped on a card of unknown status is
\* entered under the first column, at an index other than 0
C25_Witness ==
    \E r \in inflight : \E e \in entries(r.payload) :
        /\ r.state = "sent"
        /\ findIndex(tasks, e.task_id) # 0
        /\ StatusOf(tasks, e.task_id) \notin ColumnIds
        /\ StatusOf(fetchedTasks, e.task_id) \in ColumnIds
        /\ e.new_status = defaultColumns[1]
        /\ e.new_order_in_list > 0

\* the position a batch assigns to a task
positionIn(payload, id) == (CHOOSE e \in itemsFor(payload, id) : TRUE).new_order_in_list

\* C26: at drop, the batch partitions the finalized working snapshot by
\* column (a task of unknown status under the first column): every task has
\* one entry, under the column it belongs to; and within each column the
\* positions assigned are consecutive, pairwise distinct and increasing in
\* the order the tasks have in the working snapshot.
C26_SequentialPositions ==
    [][handleDragEnd /\ over.type # "None" =>
          \A r \in inflight' \ inflight :
              /\ Len(r.payload) = Len(dropSnapshot)
              /\ \A i \in 1..Len(dropSnapshot) :
                     \E e \in entries(r.payload) :
                         /\ itemsFor(r.payload, dropSnapshot[i].id) = {e}
                         /\ e.new_status = expectedColumn(dropSnapshot[i])
              /\ \A c \in ColumnIds :
                     LET col == arrayColumn(dropSnapshot, c)
                     IN  \A i \in 1..(Len(col) - 1) :
                             positionIn(r.payload, col[i + 1].id) =
                                 positionIn(r.payload, col[i].id) + 1]_vars

\* a batch is pending that fills two columns, one of them with two tasks at
\* positions 0 and 1, one of which has a status that is no column
C26_Witness ==
    \E r \in inflight : \E e1, e2, e3 \in entries(r.payload) :
        /\ r.state = "sent"
        /\ e1.new_status = e2.new_status
        /\ e1.new_order_in_list = 0
        /\ e2.new_order_in_list = 1
        /\ e3.new_status # e1.new_status
        /\ findIndex(tasks, e2.task_id) # 0
        /\ StatusOf(tasks, e2.task_id) \notin ColumnIds

\* C27: whenever no drag session is in progress (the session was dropped,
\* released outside any target, or cancelled), the controller is idle with no
\* active task.
C27_IdleHasNoActiveTask == dndActive = NoTask => activeTask = NoTask

\* C28: a drop over a valid target that leaves the working snapshot exactly
\* as the store has it, and as the store had it when the drag began (every
\* task in the column and at the position it had before the drag), sends no
\* reorder request.
C28_NoOpDropSendsNothing ==
    [][handleDragEnd /\ over.type # "None"
          /\ tasks = fetchedTasks /\ tasks = storeAtDragStart =>
             inflight' = inflight]_vars

\* the ids of the tasks a batch enters under column c, by the position the
\* batch gives them
submittedOrder(payload, c) ==
    idsInOrder(stableSort(
        [i \in 1..Len(SelectSeq(payload, LAMBDA e : e.new_status = c)) |->
            Task(SelectSeq(payload, LAMBDA e : e.new_status = c)[i].task_id, c,
                 SelectSeq(payload, LAMBDA e : e.new_status = c)[i].new_order_in_list)],
        "order"))

\* C29: at drop, for every column, the tasks ordered by the new_order_in_list
\* values submitted in the batch are in the order in which the column shows
\* them at that moment.
C29_SubmittedOrderIsShownOrder ==
    [][handleDragEnd /\ over.type # "None" =>
          \A r \in inflight' \ inflight : \A c \in ColumnIds :
              submittedOrder(r.payload, c) = idsInOrder(tasksByColumn(tasks)[c])]_vars

\* C30: after logout() has run, nobody having signed in since, and once every
\* checkAuth() call that was in flight has resolved, the auth store has no
\* user, no token and is not authenticated.
C30_LogoutIsFinal ==
    loggedOut /\ pendingAuth = {} =>
        /\ userStore.user = NoUser
        /\ userStore.token = NoToken
        /\ ~userStore.isAuthenticated

====
